---- MODULE Spec2Model ----
(***************************************************************************)
(* ConnectivityGrid (source/common/http/conn_pool_grid.{h,cc}): the grid   *)
(* of connection pools, the per-request WrapperCallbacks that fail over    *)
(* from one pool to the next, and the aggregation of the pools' drain      *)
(* notifications.                                                          *)
(*                                                                         *)
(* Every handler of the grid is a pure operator on a record g holding the  *)
(* grid's fields, the wrappers, the pools' side of the interface and what  *)
(* the caller has observed.  An action applies one handler to the current  *)
(* state.  A pool is an external collaborator; it is modelled by what the  *)
(* grid asks of it and what it calls back (the mock pool of the test).     *)
(* ASSERT is compiled out of a release build: a failed ASSERT is recorded  *)
(* in `asserts` and the handler goes on as the release build does.         *)
(***************************************************************************)
EXTENDS Integers, Sequences, FiniteSets, TLC

\* ------------------------------------------------------------------ bounds
\* Number of Grid.newStream calls of a run.
MaxRequests == 2
\* Number of Grid.addDrainedCallback calls of a run.
MaxDrainCbs == 2

\* ------------------------------------------------------- program constants
\* "if there are 2 pools we're done" (conn_pool_grid.cc:97).
MaxPools == 2
\* drains_needed_ is a uint32_t (conn_pool_grid.h:113).  The model checker's
\* integers are 32 bits wide, so the field is held as its 32-bit pattern read
\* as a signed number: 0 - 1 is the pattern of 4294967295, which reads -1.
Dec32(v) == IF v = -2147483647 - 1 THEN 2147483647 ELSE v - 1

Requests == 1..MaxRequests
Ranks == 1..MaxPools

\* ConnectionPool::PoolFailureReason, the transport failure reason and the
\* host description a pool passes to onPoolFailure.
FailureInfos ==
  { [reason |-> "LocalConnectionFailure", detail |-> "reason", host |-> "host_a"],
    [reason |-> "RemoteConnectionFailure", detail |-> "timeout", host |-> "host_b"] }
NoInfo == [reason |-> "none", detail |-> "", host |-> ""]

\* Envoy::ConnectionPool::CancelPolicy.
CancelPolicies == {"Default", "CloseExcess"}

\* What executing undefined behaviour does: the process dies, or goes on.
UbOutcomes == {"crash", "benign"}

\* absl::optional<PoolIterator>; a PoolIterator is the 0-based rank of a pool.
Nullopt == [has_value |-> FALSE, value |-> 0]
Some(rank) == [has_value |-> TRUE, value |-> rank]

\* ------------------------------------------------------------------- state
VARIABLES
  pools,              \* pools_: the pools in rank order, by kind
  pool_subs,          \* per rank: addDrainedCallback calls the pool received
  pool_notified,      \* per rank: drain notifications the pool delivered
  drained_callbacks,  \* drained_callbacks_: registered callbacks, in order
  drain_fired,        \* per registered callback: how often it was invoked
  drains_needed,      \* drains_needed_
  destroying,         \* destroying_
  wrapped_callbacks,  \* wrapped_callbacks_: the wrappers the grid owns
  ctrl,               \* per request: the WrapperCallbacks object
  attempts,           \* per request: the stream requests it issued to pools
  caller,             \* per request: callbacks delivered to inner_callbacks_
  cancelled_with,     \* per request: the policy the caller cancelled with
  create_log,         \* the last createNextPool call: arguments and result
  last_call,          \* the last hasActiveConnections or drainConnections call
  asserts,            \* ASSERTs that failed
  faults,             \* undefined behaviour that was executed
  grid                \* lifetime of the grid object

vars == << pools, pool_subs, pool_notified, drained_callbacks, drain_fired,
           drains_needed, destroying, wrapped_callbacks, ctrl, attempts,
           caller, cancelled_with, create_log, last_call, asserts, faults,
           grid >>

\* The current state as one record; `plan`, `ub` and `ret` are per-call
\* scratch: `plan` is how the pools answer the newStream calls of the running
\* handler (empty: the pool answers later), `ub` what undefined behaviour
\* does in this call, `ret` the last return value.
St ==
  [ pools |-> pools, pool_subs |-> pool_subs, pool_notified |-> pool_notified,
    drained_callbacks |-> drained_callbacks, drain_fired |-> drain_fired,
    drains_needed |-> drains_needed, destroying |-> destroying,
    wrapped_callbacks |-> wrapped_callbacks, ctrl |-> ctrl,
    attempts |-> attempts, caller |-> caller,
    cancelled_with |-> cancelled_with, create_log |-> create_log,
    last_call |-> last_call,
    asserts |-> asserts, faults |-> faults, grid |-> grid,
    plan |-> << >>, ub |-> "crash", ret |-> Nullopt ]

Set(g) ==
  /\ pools' = g.pools
  /\ pool_subs' = g.pool_subs
  /\ pool_notified' = g.pool_notified
  /\ drained_callbacks' = g.drained_callbacks
  /\ drain_fired' = g.drain_fired
  /\ drains_needed' = g.drains_needed
  /\ destroying' = g.destroying
  /\ wrapped_callbacks' = g.wrapped_callbacks
  /\ ctrl' = g.ctrl
  /\ attempts' = g.attempts
  /\ caller' = g.caller
  /\ cancelled_with' = g.cancelled_with
  /\ create_log' = g.create_log
  /\ last_call' = g.last_call
  /\ asserts' = g.asserts
  /\ faults' = g.faults
  /\ grid' = g.grid

NoCreate == [via |-> "none", before |-> 0, frozen |-> FALSE, ret |-> Nullopt, after |-> 0]
NoCall == [op |-> "none", answers |-> << >>, ret |-> FALSE, drains |-> << >>]
NewCtrl == [state |-> "unborn", pool_it |-> 0, cancellable |-> 0, late_insert |-> FALSE]

Init ==
  /\ pools = << >>
  /\ pool_subs = [r \in Ranks |-> 0]
  /\ pool_notified = [r \in Ranks |-> 0]
  /\ drained_callbacks = << >>
  /\ drain_fired = << >>
  /\ drains_needed = 0
  /\ destroying = FALSE
  /\ wrapped_callbacks = {}
  /\ ctrl = [c \in Requests |-> NewCtrl]
  /\ attempts = [c \in Requests |-> << >>]
  /\ caller = [c \in Requests |-> << >>]
  /\ cancelled_with = [c \in Requests |-> "none"]
  /\ create_log = NoCreate
  /\ last_call = NoCall
  /\ asserts = {}
  /\ faults = {}
  /\ grid = "live"

\* --------------------------------------------------------------- the grid

\* ASSERT(cond): a failed ASSERT is recorded, the release build goes on.
Check(g, cond, name) ==
  IF cond THEN g ELSE [g EXCEPT !.asserts = @ \cup {name}]

\* createNextPool without the limit of two pools.
createNextPoolImpl_NoLimit(g) ==
  LET g1 == Check(g, g.drained_callbacks = << >>,
                  "createNextPool: drained_callbacks_.empty()")
  IN IF g1.drained_callbacks # << >>
       THEN [g1 EXCEPT !.ret = Nullopt]
       ELSE IF g1.pools = << >>
         THEN [g1 EXCEPT !.pools = Append(@, "Http3"), !.ret = Some(0)]
         ELSE [g1 EXCEPT !.pools = Append(@, "Mixed"), !.ret = Some(Len(g1.pools))]

\* createNextPool that tests the number of pools only, not drained_callbacks_.
createNextPoolImpl_NoFrozenCheck(g) ==
  LET g1 == Check(g, g.drained_callbacks = << >>,
                  "createNextPool: drained_callbacks_.empty()")
  IN IF Len(g1.pools) = MaxPools
       THEN [g1 EXCEPT !.ret = Nullopt]
       ELSE IF g1.pools = << >>
         THEN [g1 EXCEPT !.pools = Append(@, "Http3"), !.ret = Some(0)]
         ELSE [g1 EXCEPT !.pools = Append(@, "Mixed"), !.ret = Some(1)]

\* ConnectivityGrid::createNextPool.
createNextPoolImpl(g) ==
  LET g1 == Check(g, g.drained_callbacks = << >>,
                  "createNextPool: drained_callbacks_.empty()")
  IN IF Len(g1.pools) = MaxPools \/ g1.drained_callbacks # << >>
       THEN [g1 EXCEPT !.ret = Nullopt]
       ELSE IF g1.pools = << >>
         THEN [g1 EXCEPT !.pools = Append(@, "Http3"), !.ret = Some(0)]
         ELSE [g1 EXCEPT !.pools = Append(@, "Mixed"), !.ret = Some(1)]

\* A call of createNextPool from `via`, noted in create_log: the number of
\* pools before and after, whether a drain callback was registered, and the
\* value returned.
createNextPool(g, via) ==
  LET r == createNextPoolImpl(g)
  IN [r EXCEPT !.create_log =
        [via |-> via, before |-> Len(g.pools),
         frozen |-> g.drained_callbacks # << >>,
         ret |-> r.ret, after |-> Len(r.pools)]]

\* nextPool that does not advance: it returns the pool of rank pool_it.
nextPool_NoAdvance(g, pool_it) ==
  IF pool_it < Len(g.pools)
    THEN [g EXCEPT !.ret = Some(pool_it)]
    ELSE createNextPool(g, "nextPool")

\* ConnectivityGrid::nextPool: the pool after rank pool_it, created if needed.
nextPool(g, pool_it) ==
  IF pool_it + 1 < Len(g.pools)
    THEN [g EXCEPT !.ret = Some(pool_it + 1)]
    ELSE createNextPool(g, "nextPool")

\* ------------------------------------------------------- WrapperCallbacks

\* Undefined behaviour is executed: it is recorded, and the build either
\* dies there (g.ub = "crash": the rest of the running handler is skipped) or
\* goes on as if nothing had happened (g.ub = "benign").
UB(g, name) ==
  [g EXCEPT !.faults = @ \cup {name},
            !.grid = IF g.ub = "crash" THEN "crashed" ELSE @]

\* WrapperCallbacks::deleteThis: removeFromList(grid_.wrapped_callbacks_).
\* Removing an object that is not in the list is undefined.
deleteThis(g, c) ==
  IF c \in g.wrapped_callbacks
    THEN [g EXCEPT !.wrapped_callbacks = @ \ {c}, !.ctrl[c].state = "freed"]
    ELSE UB(g, "deleteThis: not in wrapped_callbacks_")

\* WrapperCallbacks::onPoolReady.
onPoolReady(g, c) ==
  LET g1 == deleteThis(g, c)
  IN IF g1.grid = "crashed"
       THEN g1
       ELSE [g1 EXCEPT !.caller[c] = Append(@, [type |-> "ready", info |-> NoInfo])]

\* cancellable_ set by the constructor only: a retry keeps the first handle.
setCancellable_Once(g, c, h) ==
  IF g.grid = "crashed"
    THEN g
    ELSE IF g.ctrl[c].state = "freed"
      THEN UB(g, "cancellable_ written after deleteThis")
      ELSE IF g.ctrl[c].cancellable = 0
        THEN [g EXCEPT !.ctrl[c].cancellable = h]
        ELSE g

\* cancellable_ = <handle>: a write to a field of the wrapper, which is
\* undefined once the wrapper has been deleted.
setCancellable(g, c, h) ==
  IF g.grid = "crashed"
    THEN g
    ELSE IF g.ctrl[c].state = "freed"
      THEN UB(g, "cancellable_ written after deleteThis")
      ELSE [g EXCEPT !.ctrl[c].cancellable = h]

RECURSIVE onPoolFailure(_, _, _)

\* A pool that resolves the request before its newStream returns: it calls
\* onPoolReady or onPoolFailure from inside newStream, as planned in g.plan,
\* and returns no handle (0: nothing is left to cancel).
poolNewStreamInline(g, c) ==
  LET how == Head(g.plan)
      a == [rank |-> g.ctrl[c].pool_it, status |-> how.type,
            info |-> how.info, cancels |-> << >>]
      g1 == [g EXCEPT !.plan = Tail(@), !.attempts[c] = Append(@, a)]
      g2 == IF how.type = "ready"
              THEN onPoolReady(g1, c)
              ELSE onPoolFailure(g1, c, how.info)
  IN [g2 EXCEPT !.ret = Some(0)]

\* pool().newStream(decoder_, *this): the pool at the wrapper's rank records
\* the request and returns the handle to cancel it (here: the request's index
\* among the wrapper's attempts), unless it is planned to resolve at once.
poolNewStream(g, c) ==
  LET h == Len(g.attempts[c]) + 1
      a == [rank |-> g.ctrl[c].pool_it, status |-> "pending",
            info |-> NoInfo, cancels |-> << >>]
  IN IF g.plan = << >>
       THEN [g EXCEPT !.attempts[c] = Append(@, a), !.ret = Some(h)]
       ELSE poolNewStreamInline(g, c)

\* onPoolFailure that passes every failure up to the caller, and retries.
onPoolFailure_ForwardsEvery(g, c, info) ==
  LET g0 == [g EXCEPT !.caller[c] = Append(@, [type |-> "failure", info |-> info])]
      g1 == nextPool(g0, g0.ctrl[c].pool_it)
  IN IF g1.ret.has_value
       THEN LET g2 == [g1 EXCEPT !.ctrl[c].pool_it = g1.ret.value]
                g3 == poolNewStream(g2, c)
            IN setCancellable(g3, c, g3.ret.value)
       ELSE g1

\* onPoolFailure that passes up the failure of the first attempt, not of the
\* last one.
onPoolFailure_FirstInfo(g, c, info) ==
  LET g1 == nextPool(g, g.ctrl[c].pool_it)
  IN IF g1.ret.has_value
       THEN LET g2 == [g1 EXCEPT !.ctrl[c].pool_it = g1.ret.value]
                g3 == poolNewStream(g2, c)
            IN setCancellable(g3, c, g3.ret.value)
       ELSE [g1 EXCEPT !.caller[c] =
               Append(@, [type |-> "failure", info |-> g1.attempts[c][1].info])]

\* onPoolFailure with one rank for the whole grid: a failover moves every
\* live wrapper to the next pool.
onPoolFailure_SharedRank(g, c, info) ==
  LET g1 == nextPool(g, g.ctrl[c].pool_it)
  IN IF g1.ret.has_value
       THEN LET g2 == [g1 EXCEPT !.ctrl =
                         [d \in Requests |->
                            IF d = c \/ g1.ctrl[d].state = "alive"
                              THEN [g1.ctrl[d] EXCEPT !.pool_it = g1.ret.value]
                              ELSE g1.ctrl[d]]]
                g3 == poolNewStream(g2, c)
            IN setCancellable(g3, c, g3.ret.value)
       ELSE [g1 EXCEPT !.caller[c] = Append(@, [type |-> "failure", info |-> info])]

\* WrapperCallbacks::onPoolFailure.
onPoolFailure(g, c, info) ==
  LET g1 == nextPool(g, g.ctrl[c].pool_it)
  IN IF g1.ret.has_value
       THEN LET g2 == [g1 EXCEPT !.ctrl[c].pool_it = g1.ret.value]
                g3 == poolNewStream(g2, c)
            IN setCancellable(g3, c, g3.ret.value)
       ELSE [g1 EXCEPT !.caller[c] = Append(@, [type |-> "failure", info |-> info])]

\* cancellable_->cancel(cancel_policy) on the handle h of wrapper c: the pool
\* drops the pending request.  A handle of no request (0) is a null pointer.
handleCancel(g, c, h, policy) ==
  IF h \in DOMAIN g.attempts[c]
    THEN [g EXCEPT !.attempts[c][h].cancels = Append(@, policy),
                   !.attempts[c][h].status =
                      IF @ = "pending" THEN "cancelled" ELSE @]
    ELSE UB(g, "cancel: cancellable_ is null")

\* cancel that forwards to the pool and leaves the wrapper in the list, to be
\* cleaned up later.
cancel_NoDelete(g, c, policy) ==
  handleCancel(g, c, g.ctrl[c].cancellable, policy)

\* WrapperCallbacks::cancel.
cancel(g, c, policy) ==
  LET g1 == handleCancel(g, c, g.ctrl[c].cancellable, policy)
  IN IF g1.grid = "crashed" THEN g1 ELSE deleteThis(g1, c)

\* A constructor that races the tiers: it also sends a stream request to the
\* next pool when that pool exists already.
WrapperCallbacks_Racing(g, c, pool_it) ==
  LET g1 == [g EXCEPT !.ctrl[c] = [state |-> "constructing", pool_it |-> pool_it,
                                   cancellable |-> 0, late_insert |-> FALSE]]
      g2 == poolNewStream(g1, c)
      g3 == setCancellable(g2, c, g2.ret.value)
  IN IF g3.grid # "crashed" /\ pool_it + 1 < Len(g3.pools)
       THEN LET g4 == poolNewStream([g3 EXCEPT !.ctrl[c].pool_it = pool_it + 1], c)
            IN setCancellable(g4, c, g4.ret.value)
       ELSE g3

\* WrapperCallbacks::WrapperCallbacks.
WrapperCallbacks(g, c, pool_it) ==
  LET g1 == [g EXCEPT !.ctrl[c] = [state |-> "constructing", pool_it |-> pool_it,
                                   cancellable |-> 0, late_insert |-> FALSE]]
      g2 == poolNewStream(g1, c)
  IN setCancellable(g2, c, g2.ret.value)

\* ---------------------------------------------------- the grid, continued

\* newStream that creates the next pool whenever fewer than two exist.
newStream_Eager(g, c) ==
  LET g1 == IF Len(g.pools) < MaxPools THEN createNextPool(g, "newStream") ELSE g
      g2 == IF g1.pools = << >>
              THEN UB([g1 EXCEPT !.ub = "crash"], "newStream: *pools_.end()")
              ELSE WrapperCallbacks(g1, c, 0)
  IN IF g2.grid = "crashed"
       THEN g2
       ELSE [g2 EXCEPT !.ctrl[c].state = "alive",
                       !.ctrl[c].late_insert = g2.caller[c] # << >>,
                       !.wrapped_callbacks = @ \cup {c}]

\* ConnectivityGrid::newStream.
\* pools_.begin() of an empty list is pools_.end(), which the constructor of
\* the wrapper dereferences (pool()): that is undefined, and the read of the
\* list's sentinel node yields no pool to call, so the process dies.
\* LinkedList::moveIntoList puts the wrapper into wrapped_callbacks_; the
\* wrapper may by then have delivered its terminal callback (late_insert).
newStream(g, c) ==
  LET g1 == IF g.pools = << >> THEN createNextPool(g, "newStream") ELSE g
      g2 == IF g1.pools = << >>
              THEN UB([g1 EXCEPT !.ub = "crash"], "newStream: *pools_.end()")
              ELSE WrapperCallbacks(g1, c, 0)
  IN IF g2.grid = "crashed"
       THEN g2
       ELSE [g2 EXCEPT !.ctrl[c].state = "alive",
                       !.ctrl[c].late_insert = g2.caller[c] # << >>,
                       !.wrapped_callbacks = @ \cup {c}]

\* addDrainedCallback that counts the pools again at every registration.
addDrainedCallback_Recount(g) ==
  LET g1 == [g EXCEPT !.drained_callbacks = Append(@, Len(@) + 1),
                      !.drain_fired = Append(@, 0)]
  IN IF Len(g1.drained_callbacks) # 1
       THEN [g1 EXCEPT !.drains_needed = Len(g1.pools)]
       ELSE [g1 EXCEPT !.drains_needed = Len(g1.pools),
                       !.pool_subs = [r \in Ranks |->
                                        IF r <= Len(g1.pools) THEN @[r] + 1 ELSE @[r]]]

\* addDrainedCallback that subscribes to the pools at every registration.
addDrainedCallback_Resubscribe(g) ==
  LET g1 == [g EXCEPT !.drained_callbacks = Append(@, Len(@) + 1),
                      !.drain_fired = Append(@, 0)]
  IN [g1 EXCEPT !.drains_needed =
                   IF Len(g1.drained_callbacks) # 1 THEN @ ELSE Len(g1.pools),
                !.pool_subs = [r \in Ranks |->
                                 IF r <= Len(g1.pools) THEN @[r] + 1 ELSE @[r]]]

\* ConnectivityGrid::addDrainedCallback.
addDrainedCallback(g) ==
  LET g1 == [g EXCEPT !.drained_callbacks = Append(@, Len(@) + 1),
                      !.drain_fired = Append(@, 0)]
  IN IF Len(g1.drained_callbacks) # 1
       THEN g1
       ELSE [g1 EXCEPT !.drains_needed = Len(g1.pools),
                       !.pool_subs = [r \in Ranks |->
                                        IF r <= Len(g1.pools) THEN @[r] + 1 ELSE @[r]]]

\* The loop of hasActiveConnections from the pool at position i on:
\* answers[i] is what pools_[i]->hasActiveConnections() returns.
RECURSIVE anyPoolActive(_, _, _)
anyPoolActive(g, answers, i) ==
  IF i > Len(g.pools)
    THEN FALSE
    ELSE IF answers[i] THEN TRUE ELSE anyPoolActive(g, answers, i + 1)

\* hasActiveConnections that asks the pool of rank 0 only.
hasActiveConnections_FirstOnly(g, answers) ==
  [g EXCEPT !.last_call = [op |-> "hasActiveConnections", answers |-> answers,
                           ret |-> g.pools # << >> /\ answers[1],
                           drains |-> << >>]]

\* ConnectivityGrid::hasActiveConnections; the call is noted in last_call.
hasActiveConnections(g, answers) ==
  [g EXCEPT !.last_call = [op |-> "hasActiveConnections", answers |-> answers,
                           ret |-> anyPoolActive(g, answers, 1),
                           drains |-> << >>]]

\* drainConnections that stops after the pool of rank 0.
drainConnections_FirstOnly(g) ==
  [g EXCEPT !.last_call = [op |-> "drainConnections", answers |-> << >>,
                           ret |-> FALSE,
                           drains |-> [r \in 1..Len(g.pools) |->
                                         IF r = 1 THEN 1 ELSE 0]]]

\* ConnectivityGrid::drainConnections: pool->drainConnections() for every
\* pool; last_call notes how many drain requests each pool got in the call.
drainConnections(g) ==
  [g EXCEPT !.last_call = [op |-> "drainConnections", answers |-> << >>,
                           ret |-> FALSE,
                           drains |-> [r \in 1..Len(g.pools) |-> 1]]]

\* onDrainReceived that does not count: every notification fires.
onDrainReceived_NoCount(g) ==
  IF g.destroying
    THEN g
    ELSE LET g1 == Check(g, g.drains_needed # 0, "onDrainReceived: drains_needed_ != 0")
             g2 == [g1 EXCEPT !.drains_needed = Dec32(@)]
         IN [g2 EXCEPT !.drain_fired = [i \in DOMAIN @ |-> @[i] + 1]]

\* onDrainReceived that does not look at destroying_.
onDrainReceived_NoDestroyCheck(g) ==
  LET g1 == Check(g, g.drains_needed # 0, "onDrainReceived: drains_needed_ != 0")
      g2 == [g1 EXCEPT !.drains_needed = Dec32(@)]
  IN IF g2.drains_needed # 0
       THEN g2
       ELSE [g2 EXCEPT !.drain_fired = [i \in DOMAIN @ |-> @[i] + 1]]

\* ConnectivityGrid::onDrainReceived.
onDrainReceived(g) ==
  IF g.destroying
    THEN g
    ELSE LET g1 == Check(g, g.drains_needed # 0, "onDrainReceived: drains_needed_ != 0")
             g2 == [g1 EXCEPT !.drains_needed = Dec32(@)]
         IN IF g2.drains_needed # 0
              THEN g2
              ELSE [g2 EXCEPT !.drain_fired = [i \in DOMAIN @ |-> @[i] + 1]]

\* ----------------------------------------------------------------- actions

\* The caller asks the grid for a stream.
NewStream ==
  \E c \in Requests :
    /\ grid = "live"
    /\ ctrl[c].state = "unborn"
    /\ \A d \in Requests : d < c => ctrl[d].state # "unborn"
    /\ Set(newStream(St, c))

\* The pool of a pending attempt reports a connection failure.
PoolFailure ==
  \E c \in Requests, info \in FailureInfos :
    /\ grid = "live"
    /\ attempts[c] # << >>
    /\ attempts[c][Len(attempts[c])].status = "pending"
    /\ LET h == Len(attempts[c])
           g == [St EXCEPT !.attempts[c][h].status = "failed",
                           !.attempts[c][h].info = info]
       IN Set(onPoolFailure(g, c, info))

\* The pool of a pending attempt reports a ready stream.
PoolReady ==
  \E c \in Requests :
    /\ grid = "live"
    /\ attempts[c] # << >>
    /\ attempts[c][Len(attempts[c])].status = "pending"
    /\ LET h == Len(attempts[c])
           g == [St EXCEPT !.attempts[c][h].status = "ready"]
       IN Set(onPoolReady(g, c))

\* The caller cancels through the handle newStream returned, which is the
\* wrapper: the wrapper must still exist.  It does while the request is in
\* flight, and also after the failure of exhaustion, which does not delete it.
Cancel ==
  \E c \in Requests, policy \in CancelPolicies, ub \in UbOutcomes :
    /\ grid = "live"
    /\ ctrl[c].state = "alive"
    /\ cancelled_with[c] = "none"
    /\ Set(cancel([St EXCEPT !.cancelled_with[c] = policy, !.ub = ub], c, policy))

\* createNextPool called on its own (forceCreateNextPool of the test).
CreateNextPool ==
  /\ grid = "live"
  /\ Set(createNextPool(St, "direct"))

\* The caller registers a drain callback.
AddDrainedCallback ==
  /\ grid = "live"
  /\ Len(drained_callbacks) < MaxDrainCbs
  /\ Set(addDrainedCallback(St))

\* A pool invokes the notification it was subscribed with, once.
PoolDrained ==
  \E r \in Ranks :
    /\ grid \in {"live", "destructing"}
    /\ pool_notified[r] < pool_subs[r]
    /\ Set(onDrainReceived([St EXCEPT !.pool_notified[r] = @ + 1]))

\* ~ConnectivityGrid: destroying_ = true; then pools_.clear(), under which
\* the pools may still deliver their drain notifications (PoolDrained).
BeginDestroy ==
  /\ grid = "live"
  /\ Set([St EXCEPT !.destroying = TRUE, !.grid = "destructing"])

\* pools_.clear() is done and the members are destroyed: wrapped_callbacks_
\* is a list of unique_ptr, so every wrapper still in it is destroyed with it.
EndDestroy ==
  /\ grid = "destructing"
  /\ Set([St EXCEPT !.pools = << >>,
                    !.ctrl = [c \in Requests |->
                                IF c \in wrapped_callbacks
                                  THEN [@[c] EXCEPT !.state = "freed"]
                                  ELSE @[c]],
                    !.wrapped_callbacks = {},
                    !.grid = "destroyed"])

Next ==
  \/ NewStream
  \/ PoolFailure
  \/ PoolReady
  \/ Cancel
  \/ CreateNextPool
  \/ AddDrainedCallback
  \/ PoolDrained
  \/ BeginDestroy
  \/ EndDestroy

Spec == Init /\ [][Next]_vars

\* Every pool the grid subscribed to delivers its drain notification in the
\* end (ConnectionPool::Instance::addDrainedCallback).
SpecFair == Spec /\ WF_vars(PoolDrained)

\* ------------------------------------------- the calls that read pools_
\* The caller asks whether the grid has active connections; every pool
\* answers as it likes.
HasActiveConnections ==
  \E answers \in [1..Len(pools) -> BOOLEAN] :
    /\ grid = "live"
    /\ Set(hasActiveConnections(St, answers))

\* The caller tells the grid to drain its connections.
DrainConnections ==
  /\ grid = "live"
  /\ Set(drainConnections(St))

\* hasActiveConnections and drainConnections among the operations that
\* change pools_ or stop it from changing.
NextQuery ==
  \/ NewStream
  \/ PoolFailure
  \/ CreateNextPool
  \/ AddDrainedCallback
  \/ BeginDestroy
  \/ EndDestroy
  \/ HasActiveConnections
  \/ DrainConnections

SpecQuery == Init /\ [][NextQuery]_vars

\* ------------------------------------------- pools that resolve in newStream
\* A pool may call onPoolReady or onPoolFailure from inside its newStream,
\* before newStream returns.  Resolutions of the newStream calls one handler
\* makes, in call order; a call past the end of the plan stays pending.
Resolutions ==
  {[type |-> "ready", info |-> NoInfo]} \cup
  {[type |-> "failed", info |-> f] : f \in FailureInfos}
SyncPlans ==
  {<<r>> : r \in Resolutions} \cup
  {<<r1, r2>> : r1 \in {r \in Resolutions : r.type = "failed"}, r2 \in Resolutions}
\* Grid.newStream when the first pool (and, after a failure, the second)
\* resolves inside newStream, i.e. under the constructor of the wrapper.
NewStreamSync ==
  \E c \in Requests, plan \in SyncPlans, ub \in UbOutcomes :
    /\ grid = "live"
    /\ ctrl[c].state = "unborn"
    /\ \A d \in Requests : d < c => ctrl[d].state # "unborn"
    /\ Set(newStream([St EXCEPT !.plan = plan, !.ub = ub], c))

\* A pending attempt fails and the pool the wrapper retries on resolves inside
\* the newStream call that onPoolFailure makes.
PoolFailureSync ==
  \E c \in Requests, info \in FailureInfos, r \in Resolutions, ub \in UbOutcomes :
    /\ grid = "live"
    /\ attempts[c] # << >>
    /\ attempts[c][Len(attempts[c])].status = "pending"
    /\ LET h == Len(attempts[c])
           g == [St EXCEPT !.attempts[c][h].status = "failed",
                           !.attempts[c][h].info = info,
                           !.plan = <<r>>, !.ub = ub]
       IN Set(onPoolFailure(g, c, info))

NextSync ==
  \/ NewStream
  \/ PoolFailure
  \/ PoolReady
  \/ Cancel
  \/ CreateNextPool
  \/ AddDrainedCallback
  \/ PoolDrained
  \/ BeginDestroy
  \/ EndDestroy
  \/ NewStreamSync
  \/ PoolFailureSync

SpecSync == Init /\ [][NextSync]_vars

\* ------------------------------------------------------------ the claims

Last(s) == s[Len(s)]
ReadyEvent == [type |-> "ready", info |-> NoInfo]
FailureEvent(f) == [type |-> "failure", info |-> f]
HasReady(c) == \E i \in DOMAIN attempts[c] : attempts[c][i].status = "ready"
AllFailed(c) ==
  /\ attempts[c] # << >>
  /\ \A i \in DOMAIN attempts[c] : attempts[c][i].status = "failed"
IsPrefix(s, t) == Len(s) <= Len(t) /\ \A i \in DOMAIN s : s[i] = t[i]

\* C1: a request whose pool notifications end with a success (after no or
\* one failed tier) has delivered to the caller exactly one onPoolReady and no
\* onPoolFailure, and nothing follows the success.
C1_SuccessOnce ==
  \A c \in Requests :
    /\ HasReady(c) => caller[c] = <<ReadyEvent>>
    /\ (\E i \in DOMAIN caller[c] : caller[c][i].type = "ready")
         => /\ caller[c] = <<ReadyEvent>>
            /\ Last(attempts[c]).status = "ready"
            /\ \A i \in 1..(Len(attempts[c]) - 1) : attempts[c][i].status = "failed"

C1_Witness ==
  \E c \in Requests :
    /\ Len(attempts[c]) = 2
    /\ attempts[c][1].status = "failed"
    /\ attempts[c][2].status = "ready"
    /\ caller[c] = <<ReadyEvent>>

\* C2: a request all of whose tiers failed (no further pool on the last
\* failure) has delivered to the caller exactly one onPoolFailure, with the
\* reason, detail and host of the last attempt's failure, and no onPoolReady;
\* and the caller sees a failure in no other case.
C2_ExhaustionFailure ==
  \A c \in Requests :
    /\ AllFailed(c) => caller[c] = <<FailureEvent(Last(attempts[c]).info)>>
    /\ (\E i \in DOMAIN caller[c] : caller[c][i].type = "failure")
         => /\ AllFailed(c)
            /\ caller[c] = <<FailureEvent(Last(attempts[c]).info)>>
            /\ \A i \in DOMAIN attempts[c] : attempts[c][i].rank = i - 1
            /\ grid = "live" => Len(attempts[c]) = Len(pools)
            /\ grid = "live" => (Len(pools) = MaxPools \/ drained_callbacks # << >>)

C2_Witness ==
  \E c \in Requests :
    /\ Len(attempts[c]) = 2
    /\ AllFailed(c)
    /\ attempts[c][1].info # attempts[c][2].info
    /\ caller[c] = <<FailureEvent(attempts[c][2].info)>>

\* C3: cancelling a request in flight (its last attempt is pending, at rank
\* 0 or at rank 1 after a failover) delivers no callback to the caller, then
\* or later, and passes the caller's policy exactly once to the handle of the
\* most recent attempt and to no handle of an earlier, failed attempt; no
\* other request's handle is cancelled, and without a cancel no handle is.
C3_CancelForwarded ==
  /\ [][\A c \in Requests :
          (cancelled_with[c] = "none" /\ cancelled_with'[c] # "none"
             /\ attempts[c] # << >> /\ Last(attempts[c]).status = "pending")
            => /\ caller[c] = << >>
               /\ caller' = caller
               /\ Len(attempts'[c]) = Len(attempts[c])
               /\ Last(attempts'[c]).cancels = <<cancelled_with'[c]>>
               /\ Last(attempts'[c]).status = "cancelled"
               /\ \A i \in 1..(Len(attempts[c]) - 1) :
                    /\ attempts'[c][i] = attempts[c][i]
                    /\ attempts[c][i].cancels = << >>
                    /\ attempts[c][i].status = "failed"
               /\ \A d \in Requests \ {c} : attempts'[d] = attempts[d]]_vars
  /\ [][\A c \in Requests :
          cancelled_with[c] # "none"
            => /\ caller'[c] = caller[c]
               /\ attempts'[c] = attempts[c]
               /\ cancelled_with'[c] = cancelled_with[c]]_vars
  /\ [](\A c \in Requests :
          IF cancelled_with[c] = "none"
            THEN \A i \in DOMAIN attempts[c] : attempts[c][i].cancels = << >>
            ELSE /\ attempts[c] # << >>
                 /\ caller[c] = << >>
                      => /\ Last(attempts[c]).cancels = <<cancelled_with[c]>>
                         /\ Last(attempts[c]).status = "cancelled"
                         /\ \A i \in 1..(Len(attempts[c]) - 1) :
                              /\ attempts[c][i].cancels = << >>
                              /\ attempts[c][i].status = "failed")

C3_Witness ==
  \E c \in Requests :
    /\ cancelled_with[c] = "CloseExcess"
    /\ Len(attempts[c]) = 2
    /\ attempts[c][1].status = "failed"
    /\ attempts[c][2].cancels = <<"CloseExcess">>
    /\ caller[c] = << >>

\* C4: a registered drain callback is invoked at most once, and only when
\* every pool that existed at the first registration has delivered its drain
\* notification; with two pools one notification fires nothing and the second
\* one fires.
C4_DrainFiresOnceAfterAll ==
  /\ \A i \in DOMAIN drain_fired : drain_fired[i] <= 1
  /\ (grid # "destroyed" /\ \E i \in DOMAIN drain_fired : drain_fired[i] > 0)
       => \A r \in 1..Len(pools) : pool_notified[r] >= 1
  /\ (grid = "live" /\ drained_callbacks # << >> /\ Len(pools) = MaxPools
        /\ \A r \in Ranks : pool_notified[r] = 1)
       => drain_fired[1] = 1

C4_Witness ==
  /\ grid = "live"
  /\ Len(pools) = MaxPools
  /\ \A r \in Ranks : pool_subs[r] = 1 /\ pool_notified[r] = 1
  /\ Len(drained_callbacks) = 2
  /\ drain_fired = <<1, 1>>

\* C5: every drain callback registered after the first one, at whatever point
\* of the pools' drain notifications, is invoked exactly once, in the firing
\* that invokes the first one.
C5_LaterCallbacksFireWithFirst ==
  \A i \in DOMAIN drain_fired : drain_fired[i] = drain_fired[1]

\* C6: once destroying_ is set no drain callback is invoked, whatever drain
\* notifications arrive.
C6_NoDrainFiredWhileDestroying ==
  [][destroying => drain_fired' = drain_fired]_vars

C6_Witness ==
  /\ destroying
  /\ drained_callbacks # << >>
  /\ drains_needed = 1
  /\ \A r \in 1..Len(pools) : pool_subs[r] = 1 /\ pool_notified[r] = 1
  /\ Len(pools) >= 1
  /\ \A i \in DOMAIN drain_fired : drain_fired[i] = 0

\* C7: there are never more than two pools, a pool is never removed or
\* reordered before the grid is destroyed, and createNextPool called with two
\* pools returns none and leaves the pools as they are.
C7_AtMostTwoPoolsAppendOnly ==
  /\ [](Len(pools) <= MaxPools)
  /\ [](create_log.before = MaxPools
          => ~create_log.ret.has_value /\ create_log.after = create_log.before)
  /\ [][grid' # "destroyed" => IsPrefix(pools, pools')]_vars

C7_Witness ==
  /\ create_log.before = MaxPools
  /\ ~create_log.ret.has_value
  /\ pools = <<"Http3", "Mixed">>

\* C8: once a drain callback is registered, every createNextPool call (made
\* directly, by newStream or through nextPool) returns none and appends no
\* pool, also with fewer than two pools.
C8_FrozenAfterDrainRegistration ==
  /\ create_log.frozen
       => ~create_log.ret.has_value /\ create_log.after = create_log.before
  /\ (create_log.via # "none" /\ ~create_log.frozen /\ create_log.before < MaxPools)
       => create_log.ret = Some(create_log.before)
            /\ create_log.after = create_log.before + 1

C8_Witness ==
  /\ create_log.via = "nextPool"
  /\ create_log.frozen
  /\ create_log.before = 1
  /\ ~create_log.ret.has_value
  /\ Len(pools) = 1

\* C9: wrapped_callbacks_ never holds a wrapper that has delivered its
\* terminal callback (onPoolReady or the onPoolFailure of exhaustion).
C9_TerminatedWrapperRemoved ==
  \A c \in wrapped_callbacks : caller[c] = << >>

\* C10: with pools that resolve inside newStream, a wrapper is removed from
\* wrapped_callbacks_ only while it is in it, no wrapper is put into the list
\* after it delivered its terminal callback, no field of a deleted wrapper is
\* written, and a resolved request has delivered exactly one callback.
C10_CorrectUnderInlineResolution ==
  /\ "deleteThis: not in wrapped_callbacks_" \notin faults
  /\ "cancellable_ written after deleteThis" \notin faults
  /\ \A c \in Requests :
       /\ ~ctrl[c].late_insert
       /\ (HasReady(c) \/ AllFailed(c)) => Len(caller[c]) = 1

\* C11: after every Grid.newStream call, whatever the pools and the drain
\* callbacks were, a pool exists, and the wrapper the call made is in
\* wrapped_callbacks_, points at rank 0 and has sent its first stream request
\* to the pool of rank 0, also when other requests are at rank 1 by then.
C11_NewStreamBindsRankZero ==
  /\ "newStream: *pools_.end()" \notin faults
  /\ create_log.via = "newStream" => create_log.after >= 1
  /\ \A c \in Requests :
       ctrl[c].state # "unborn"
         => /\ attempts[c] # << >>
            /\ attempts[c][1].rank = 0
            /\ grid # "destroyed" => pools # << >>
            /\ (Len(attempts[c]) = 1 /\ attempts[c][1].status = "pending")
                 => /\ ctrl[c].pool_it = 0
                    /\ ctrl[c].cancellable = 1
                    /\ grid # "destroyed" => c \in wrapped_callbacks

\* C12: the rank is kept per wrapper: a failure, a success or a cancel of one
\* request changes neither the wrapper nor the attempts of any other request,
\* and a request whose first attempt fails when the pool of rank 1 exists
\* already (another request made it) retries on that pool, and no pool is
\* created.
C12_RankPerWrapper ==
  [][\A c \in Requests :
       (ctrl[c].state # "unborn" /\ attempts'[c] # attempts[c])
         => /\ \A d \in Requests \ {c} :
                 ctrl'[d] = ctrl[d] /\ attempts'[d] = attempts[d]
            /\ (Len(pools) = MaxPools /\ Len(attempts[c]) = 1
                  /\ attempts'[c][1].status = "failed")
                 => /\ pools' = pools
                    /\ create_log' = create_log
                    /\ Len(attempts'[c]) = 2
                    /\ attempts'[c][2].rank = 1
                    /\ attempts'[c][2].status = "pending"
                    /\ ctrl'[c].pool_it = 1]_vars

C12_Witness ==
  /\ pools = <<"Http3", "Mixed">>
  /\ create_log.via = "nextPool"
  /\ create_log.before = 1
  /\ create_log.after = MaxPools
  /\ \A c \in 1..2 :
       /\ Len(attempts[c]) = 2
       /\ attempts[c][1].status = "failed"
       /\ attempts[c][2].rank = 1
       /\ attempts[c][2].status = "pending"
       /\ ctrl[c].pool_it = 1

\* C13: pools are created one at a time and only when needed: newStream on
\* a grid without pools (and without drain callbacks) makes the pool of rank 0
\* and no other, newStream on a grid with a pool makes none, a failure at rank
\* 0 with one pool (and without drain callbacks) makes the pool of rank 1 and
\* retries on it; a pool appears in no other step but a createNextPool call
\* made on its own, and hasActiveConnections and drainConnections never make
\* one.
C13_LazyPoolCreation ==
  /\ [][(pools' # pools /\ grid' # "destroyed")
          => /\ drained_callbacks = << >>
             /\ pools' = Append(pools, IF pools = << >> THEN "Http3" ELSE "Mixed")
             /\ \/ /\ create_log'.via = "newStream"
                   /\ pools = << >>
                   /\ \E c \in Requests :
                        /\ ctrl[c].state = "unborn"
                        /\ ctrl'[c].state = "alive"
                   /\ caller' = caller
                   /\ cancelled_with' = cancelled_with
                \/ /\ create_log'.via = "nextPool"
                   /\ Len(pools) = 1
                   /\ \E c \in Requests :
                        /\ Len(attempts[c]) = 1
                        /\ attempts[c][1].status = "pending"
                        /\ attempts'[c][1].status = "failed"
                   /\ caller' = caller
                   /\ cancelled_with' = cancelled_with
                \/ /\ create_log'.via = "direct"
                   /\ ctrl' = ctrl
                   /\ attempts' = attempts
                   /\ caller' = caller
                   /\ cancelled_with' = cancelled_with]_vars
  /\ [][\A c \in Requests :
          (ctrl[c].state = "unborn" /\ ctrl'[c].state # "unborn")
            => /\ pools = << >> => pools' = <<"Http3">>
               /\ pools # << >> => pools' = pools
               /\ attempts'[c] = <<[rank |-> 0, status |-> "pending",
                                    info |-> NoInfo, cancels |-> << >>]>>]_vars
  /\ [][\A c \in Requests :
          (Len(pools) = 1 /\ drained_callbacks = << >> /\ Len(attempts[c]) = 1
             /\ attempts[c][1].status = "pending"
             /\ attempts'[c][1].status = "failed")
            => /\ pools' = <<"Http3", "Mixed">>
               /\ Len(attempts'[c]) = 2
               /\ attempts'[c][2].rank = 1
               /\ attempts'[c][2].status = "pending"]_vars
  /\ [](/\ drainConnections(St).pools = pools
        /\ \A answers \in [1..Len(pools) -> BOOLEAN] :
             hasActiveConnections(St, answers).pools = pools)

C13_Witness ==
  /\ pools = <<"Http3", "Mixed">>
  /\ create_log.via = "nextPool"
  /\ create_log.before = 1
  /\ create_log.ret = Some(1)
  /\ drained_callbacks = << >>
  /\ Len(attempts[1]) = 2
  /\ attempts[1][2].rank = 1
  /\ attempts[1][2].status = "pending"
  /\ ctrl[2].state = "alive"
  /\ Len(attempts[2]) = 1
  /\ attempts[2][1].status = "pending"

\* C14: a request has at most one attempt outstanding: an attempt at rank
\* r+1 exists only if the attempt at rank r has failed, so none is made while
\* an attempt is pending and none after a success.
C14_OneOutstandingAttempt ==
  \A c \in Requests :
    /\ Cardinality({i \in DOMAIN attempts[c] : attempts[c][i].status = "pending"}) <= 1
    /\ \A i \in DOMAIN attempts[c] :
         /\ attempts[c][i].rank = i - 1
         /\ i < Len(attempts[c]) => attempts[c][i].status = "failed"

C14_Witness ==
  \E c \in Requests :
    /\ Len(attempts[c]) = 2
    /\ attempts[c][1].status = "failed"
    /\ attempts[c][2].status = "pending"
    /\ ctrl[c].cancellable = 2
    /\ caller[c] = << >>
    /\ \E d \in Requests \ {c} : Len(attempts[d]) = 1 /\ attempts[d][1].status = "ready"

\* C15: hasActiveConnections returns true exactly if one of the existing
\* pools reports active connections (false without pools), and the call
\* changes nothing of the grid, its wrappers or its pools.
C15_HasActiveConnectionsIsAny ==
  /\ [](last_call.op = "hasActiveConnections"
          => last_call.ret = (\E r \in DOMAIN last_call.answers : last_call.answers[r]))
  /\ [][last_call'.op = "hasActiveConnections" /\ last_call' # last_call
          => /\ DOMAIN last_call'.answers = 1..Len(pools)
             /\ UNCHANGED << pools, pool_subs, pool_notified, drained_callbacks,
                             drain_fired, drains_needed, destroying,
                             wrapped_callbacks, ctrl, attempts, caller,
                             cancelled_with, create_log, asserts, faults, grid >>]_vars

C15_Witness ==
  /\ pools = <<"Http3", "Mixed">>
  /\ last_call.op = "hasActiveConnections"
  /\ last_call.answers = <<FALSE, TRUE>>
  /\ last_call.ret

\* C16: cancel is synchronous: the step in which the caller cancels a request
\* takes its wrapper out of wrapped_callbacks_, and leaves every other wrapper
\* in the list and unchanged.
C16_CancelRemovesWrapperAtOnce ==
  [][\A c \in Requests :
       (cancelled_with[c] = "none" /\ cancelled_with'[c] # "none")
         => /\ c \in wrapped_callbacks
            /\ wrapped_callbacks' = wrapped_callbacks \ {c}
            /\ ctrl'[c].state = "freed"
            /\ \A d \in Requests \ {c} :
                 /\ ctrl'[d] = ctrl[d]
                 /\ attempts'[d] = attempts[d]
                 /\ caller'[d] = caller[d]]_vars

C16_Witness ==
  \E c \in Requests, d \in Requests :
    /\ c # d
    /\ cancelled_with[c] # "none"
    /\ c \notin wrapped_callbacks
    /\ ctrl[c].state = "freed"
    /\ d \in wrapped_callbacks
    /\ Last(attempts[d]).status = "pending"
    /\ cancelled_with[d] = "none"

\* C17: the rank of a wrapper changes only in a step that delivers a failure
\* of its pending attempt, and then by exactly 1 with one stream request to
\* the new rank; so it never decreases, and the ranks a wrapper sent stream
\* requests to are strictly increasing (no rank is tried twice).
C17_RankAdvancesByOneOnFailure ==
  /\ [][\A c \in Requests :
          (ctrl[c].state # "unborn" /\ ctrl'[c].pool_it # ctrl[c].pool_it)
            => /\ ctrl'[c].pool_it = ctrl[c].pool_it + 1
               /\ Last(attempts[c]).status = "pending"
               /\ Len(attempts'[c]) = Len(attempts[c]) + 1
               /\ attempts'[c][Len(attempts[c])].status = "failed"
               /\ Last(attempts'[c]).rank = ctrl'[c].pool_it]_vars
  /\ [][\A c \in Requests :
          (attempts[c] # << >> /\ Len(attempts'[c]) > Len(attempts[c]))
            => ctrl'[c].pool_it = ctrl[c].pool_it + 1]_vars
  /\ [](\A c \in Requests : \A i, j \in DOMAIN attempts[c] :
          i < j => attempts[c][i].rank < attempts[c][j].rank)

C17_Witness ==
  \E c \in Requests :
    /\ ctrl[c].pool_it = 1
    /\ Len(attempts[c]) = 2
    /\ attempts[c][1].rank = 0
    /\ attempts[c][2].rank = 1
    /\ attempts[c][2].status = "failed"
    /\ Len(caller[c]) = 1

\* C18: drains_needed_ is set by the first addDrainedCallback call only, to
\* the number of pools of that moment, and that call subscribes once to each
\* of these pools; a later call appends its callback and nothing else: the
\* count stays as it is, also after notifications have lowered it, and no
\* pool is subscribed to.  Apart from the first registration the count
\* changes only by a drain notification, by one.
C18_CountSetByFirstRegistrationOnly ==
  /\ [][Len(drained_callbacks') = Len(drained_callbacks) + 1
          => IF drained_callbacks = << >>
               THEN /\ drains_needed' = Len(pools)
                    /\ pool_subs' = [r \in Ranks |-> IF r <= Len(pools) THEN 1 ELSE 0]
               ELSE /\ drains_needed' = drains_needed
                    /\ pool_subs' = pool_subs
                    /\ pool_notified' = pool_notified
                    /\ drain_fired' = Append(drain_fired, 0)]_vars
  /\ [][(drains_needed' # drains_needed /\ drained_callbacks' = drained_callbacks)
          => /\ drains_needed' = drains_needed - 1
             /\ pool_notified' # pool_notified]_vars
  /\ [](\A r \in Ranks : pool_subs[r] <= 1)

C18_Witness ==
  /\ Len(drained_callbacks) = 2
  /\ Len(pools) = MaxPools
  /\ drains_needed = 1
  /\ pool_subs = [r \in Ranks |-> 1]
  /\ pool_notified[1] + pool_notified[2] = 1
  /\ drain_fired = <<0, 0>>
  /\ ~destroying

\* C19: whenever a pool's drain notification is processed outside the
\* destructor, drains_needed_ is positive: the ASSERT of onDrainReceived
\* never fails and the unsigned count never wraps below 0; each pool delivers
\* the notification once per subscription.  Before the destructor the count
\* is the number of subscribed pools that have not notified yet.
C19_DrainCountPositiveAtNotification ==
  /\ "onDrainReceived: drains_needed_ != 0" \notin asserts
  /\ drains_needed >= 0
  /\ drains_needed <= MaxPools
  /\ \A r \in Ranks : pool_notified[r] <= pool_subs[r]
  /\ ~destroying
       => /\ \A r \in Ranks : pool_notified[r] < pool_subs[r] => drains_needed > 0
          /\ drains_needed =
               Cardinality({r \in Ranks : pool_notified[r] < pool_subs[r]})

C19_Witness ==
  /\ ~destroying
  /\ Len(pools) = 1
  /\ pool_subs[1] = 1
  /\ pool_notified[1] = 1
  /\ drains_needed = 0
  /\ drain_fired = <<1>>

\* C20: a wrapper calls cancel only on the handle of an attempt that is still
\* outstanding: every handle that got a cancel belonged to a pending attempt
\* and got it once, no attempt that had delivered onPoolReady or
\* onPoolFailure is cancelled, and cancel is never called on a null handle.
C20_CancelOnlyOutstandingHandle ==
  /\ "cancel: cancellable_ is null" \notin faults
  /\ \A c \in Requests : \A i \in DOMAIN attempts[c] :
       attempts[c][i].cancels # << >>
         => /\ attempts[c][i].status = "cancelled"
            /\ Len(attempts[c][i].cancels) = 1
            /\ ctrl[c].cancellable = i

\* C21: drainConnections sends one drain request to each pool that exists
\* when it is called (none without pools) and changes nothing else: pools_,
\* wrapped_callbacks_, drains_needed_ and drained_callbacks_ stay as they
\* are, and the call invokes no drain callback.
C21_DrainConnectionsForwardsToAll ==
  /\ [](last_call.op = "drainConnections"
          => \A r \in DOMAIN last_call.drains : last_call.drains[r] = 1)
  /\ [][last_call'.op = "drainConnections" /\ last_call' # last_call
          => /\ DOMAIN last_call'.drains = 1..Len(pools)
             /\ UNCHANGED << pools, pool_subs, pool_notified, drained_callbacks,
                             drain_fired, drains_needed, destroying,
                             wrapped_callbacks, ctrl, attempts, caller,
                             cancelled_with, create_log, asserts, faults, grid >>]_vars

C21_Witness ==
  /\ pools = <<"Http3", "Mixed">>
  /\ last_call.op = "drainConnections"
  /\ last_call.drains = <<1, 1>>
  /\ drained_callbacks # << >>
  /\ drains_needed = MaxPools
  /\ \A i \in DOMAIN drain_fired : drain_fired[i] = 0

\* C22: drain completion: once a drain callback is registered, with no, one
\* or two pools, and the pools deliver their drain notifications, the
\* callback is invoked in the end, unless the grid is destroyed (or the
\* process has died) first.
C22_DrainCompletes ==
  \A i \in 1..MaxDrainCbs :
    (Len(drained_callbacks) >= i /\ grid = "live")
      ~> (grid # "live" \/ (Len(drain_fired) >= i /\ drain_fired[i] >= 1))

\* C23: whenever newStream or nextPool calls createNextPool, no drain
\* callback is registered: the ASSERT at the top of createNextPool holds in
\* these calls, however newStream, pool failures and addDrainedCallback are
\* interleaved.
C23_CreateNextPoolAssertHolds ==
  create_log.via \in {"newStream", "nextPool"} => ~create_log.frozen

====
